---- MODULE Spec2Model ----
(***************************************************************************)
(* Model of fuzidate.Fuzidate (src/src/fuzidate/fuzidate.py): one instance *)
(* of the class, its four fields, its memoization cells (validated, high,  *)
(* low) and the outcome of the last operation invoked on it.               *)
(*                                                                         *)
(* Python integers are unbounded; the inputs below are chosen so that      *)
(* every intermediate value stays inside the range of the model checker's  *)
(* integers.  The library calls the class makes (calendar.monthrange,      *)
(* datetime.date, datetime.timedelta, date + timedelta, re.match, int,     *)
(* str.format) are modelled by what CPython does, including the exceptions *)
(* they raise.                                                             *)
(***************************************************************************)
EXTENDS Integers, Sequences, FiniteSets, TLC

(* ------------------------------------------------------------------ *)
(* Bounds of the explored inputs                                       *)
(* ------------------------------------------------------------------ *)
MaxYearArg == 10000
MaxMonthArg == 13
MaxDayArg == 32
MaxSmallOffset == 12
NThreads == 2

(* ------------------------------------------------------------------ *)
(* Constants of the program and of the library it calls                *)
(* ------------------------------------------------------------------ *)
MINYEAR == 1
MAXYEAR == 9999
MAXORDINAL == 3652059
CIntMax == 2147483647
MaxDeltaDays == 999999999

PrecisionNone == 1
PrecisionYear == 2
PrecisionMonth == 3
PrecisionDay == 4

None == <<>>

(* ------------------------------------------------------------------ *)
(* Outcomes: exc = "" is a normal return, otherwise the class of the   *)
(* exception that leaves the call; reason/arg are the message of an    *)
(* InvalidFuzidateError ('Invalid day: {}' has reason "Invalid day"    *)
(* and arg the number).                                                *)
(* ------------------------------------------------------------------ *)
NoExc == ""
InvalidFuzidateError == "InvalidFuzidateError"
ValueError == "ValueError"
IllegalMonthError == "IllegalMonthError"
OverflowError == "OverflowError"
NotImplementedError == "NotImplementedError"

(* ------------------------------------------------------------------ *)
(* calendar / datetime                                                 *)
(* ------------------------------------------------------------------ *)
\* isleap by the Julian rule: every fourth year
isleap_Julian(y) == y % 4 = 0

isleap(y) == y % 4 = 0 /\ (y % 100 # 0 \/ y % 400 = 0)

mdays(m) == CASE m = 2 -> 28
              [] m \in {4, 6, 9, 11} -> 30
              [] OTHER -> 31

DaysInMonth(y, m) == mdays(m) + (IF m = 2 /\ isleap(y) THEN 1 ELSE 0)

\* calendar.monthrange(year, month)[1].  wraps = TRUE is calendar.weekday of
\* Python >= 3.8, which maps a year outside MINYEAR..MAXYEAR into range
\* before it builds a date; wraps = FALSE is Python 3.5-3.7, where the date
\* constructor rejects such a year.
monthrange(wraps, y, m) ==
    IF ~(1 <= m /\ m <= 12)
    THEN [exc |-> IllegalMonthError, n |-> 0]
    ELSE IF ~wraps /\ ~(MINYEAR <= y /\ y <= MAXYEAR)
    THEN [exc |-> IF y > CIntMax THEN OverflowError ELSE ValueError, n |-> 0]
    ELSE [exc |-> NoExc, n |-> DaysInMonth(y, m)]

\* datetime.date(year, month, day)
date(y, m, d) ==
    IF y > CIntMax \/ m > CIntMax \/ d > CIntMax
    THEN [exc |-> OverflowError, date |-> None]
    ELSE IF ~(MINYEAR <= y /\ y <= MAXYEAR) \/ ~(1 <= m /\ m <= 12)
    THEN [exc |-> ValueError, date |-> None]
    ELSE IF ~(1 <= d /\ d <= DaysInMonth(y, m))
    THEN [exc |-> ValueError, date |-> None]
    ELSE [exc |-> NoExc, date |-> <<y, m, d>>]

DateMin == <<MINYEAR, 1, 1>>
DateMax == <<MAXYEAR, 12, 31>>

DaysBeforeYear(y) ==
    (y - 1) * 365 + ((y - 1) \div 4) - ((y - 1) \div 100) + ((y - 1) \div 400)

DaysBeforeMonthTable(m) ==
    <<0, 31, 59, 90, 120, 151, 181, 212, 243, 273, 304, 334>>[m]

DaysBeforeMonth(leap, m) ==
    DaysBeforeMonthTable(m) + (IF m > 2 /\ leap THEN 1 ELSE 0)

\* date.toordinal()
toordinal(dt) ==
    DaysBeforeYear(dt[1]) + DaysBeforeMonth(isleap(dt[1]), dt[2]) + dt[3]

\* date.fromordinal(n), for 1 <= n <= MAXORDINAL
fromordinal(ord) ==
    LET n0   == ord - 1
        n400 == n0 \div 146097
        r400 == n0 % 146097
        n100 == r400 \div 36524
        r100 == r400 % 36524
        n4   == r100 \div 1461
        r4   == r100 % 1461
        n1   == r4 \div 365
        n    == r4 % 365
        yr   == n400 * 400 + 1 + n100 * 100 + n4 * 4 + n1
    IN  IF n1 = 4 \/ n100 = 4
        THEN <<yr - 1, 12, 31>>
        ELSE LET leapyear == n1 = 3 /\ (n4 # 24 \/ n100 = 3)
                 mo0      == (n + 50) \div 32
                 pre0     == DaysBeforeMonth(leapyear, mo0)
                 mo       == IF pre0 > n THEN mo0 - 1 ELSE mo0
                 pre      == IF pre0 > n
                             THEN pre0 - (mdays(mo)
                                          + (IF mo = 2 /\ leapyear THEN 1 ELSE 0))
                             ELSE pre0
             IN  <<yr, mo, n - pre + 1>>

\* datetime.timedelta(seconds=offset * 86400): normalised to days = offset
timedelta(offsetDays) ==
    IF offsetDays > MaxDeltaDays \/ offsetDays < -MaxDeltaDays
    THEN [exc |-> OverflowError, days |-> 0]
    ELSE [exc |-> NoExc, days |-> offsetDays]

\* date + timedelta
DateAdd(dt, days) ==
    LET o == toordinal(dt) + days
    IN  IF 0 < o /\ o <= MAXORDINAL
        THEN [exc |-> NoExc, date |-> fromordinal(o)]
        ELSE [exc |-> OverflowError, date |-> None]

\* int(a / b) for b > 0: true division, then truncation toward zero
TruncDiv(a, b) == IF a >= 0 THEN a \div b ELSE -((-a) \div b)

(* ------------------------------------------------------------------ *)
(* Fuzidate: pure parts                                                *)
(* ------------------------------------------------------------------ *)
Raise(e, r, a) == [exc |-> e, reason |-> r, arg |-> a]

\* Fuzidate.number
number(y, m, d) == (y * 10000) + (m * 100) + d

\* Fuzidate.precision
precision(y, m, d) ==
    IF y = 0 THEN PrecisionNone
    ELSE IF m = 0 THEN PrecisionYear
    ELSE IF d = 0 THEN PrecisionMonth
    ELSE PrecisionDay

\* The closing "return datetime.date(year, month, day)" of __calc_high with
\* its "except ValueError" handler.
FinalDate(y, m, d) ==
    LET r == date(y, m, d)
    IN  IF r.exc = ValueError
        THEN Raise(InvalidFuzidateError, "Offset out of range", 0) @@ [date |-> None]
        ELSE Raise(r.exc, "", 0) @@ [date |-> r.date]

\* MonthOffsetHigh with the year carried from high_months instead of
\* high_months - 1: a sum on a multiple of 12 lands a year late
MonthOffsetHigh_CarryOnTwelve(wraps, y, m, o) ==
    LET high_months == m + o
        year2  == y + TruncDiv(high_months, 12)
        rem    == high_months % 12
        month2 == IF rem = 0 THEN 12 ELSE rem
        mr     == monthrange(wraps, year2, month2)
    IN  IF mr.exc \in {ValueError, IllegalMonthError}
        THEN Raise(InvalidFuzidateError, "Offset out of range", 0) @@ [date |-> None]
        ELSE IF mr.exc # NoExc
        THEN Raise(mr.exc, "", 0) @@ [date |-> None]
        ELSE FinalDate(year2, month2, mr.n)

\* The Precision.month branch of __calc_high (offset # 0)
MonthOffsetHigh(wraps, y, m, o) ==
    LET high_months == m + o
        year2  == y + TruncDiv(high_months - 1, 12)
        rem    == high_months % 12
        month2 == IF rem = 0 THEN 12 ELSE rem
        mr     == monthrange(wraps, year2, month2)
    IN  IF mr.exc \in {ValueError, IllegalMonthError}
        THEN Raise(InvalidFuzidateError, "Offset out of range", 0) @@ [date |-> None]
        ELSE IF mr.exc # NoExc
        THEN Raise(mr.exc, "", 0) @@ [date |-> None]
        ELSE FinalDate(year2, month2, mr.n)

\* DayOffsetHigh counting the offset in 30-day months instead of days
DayOffsetHigh_ThirtyDayMonths(y, m, d, o) ==
    LET delta == timedelta(o)
        dt    == date(y, m, d)
        mo    == (m - 1) + ((d - 1 + o) \div 30)
    IN  IF delta.exc # NoExc
        THEN Raise(delta.exc, "", 0) @@ [date |-> None]
        ELSE IF dt.exc # NoExc
        THEN Raise(dt.exc, "", 0) @@ [date |-> None]
        ELSE IF y + (mo \div 12) > MAXYEAR
        THEN Raise(InvalidFuzidateError, "Offset out of range", 0)
             @@ [date |-> None]
        ELSE Raise(NoExc, "", 0)
             @@ [date |-> <<y + (mo \div 12), (mo % 12) + 1,
                            ((d - 1 + o) % 30) + 1>>]

\* The Precision.day branch of __calc_high (offset # 0)
DayOffsetHigh(y, m, d, o) ==
    LET delta == timedelta(o)
        dt    == date(y, m, d)
    IN  IF delta.exc # NoExc
        THEN Raise(delta.exc, "", 0) @@ [date |-> None]
        ELSE IF dt.exc # NoExc
        THEN Raise(dt.exc, "", 0) @@ [date |-> None]
        ELSE LET hi == DateAdd(dt.date, delta.days)
             IN  IF hi.exc = OverflowError
                 THEN Raise(InvalidFuzidateError, "Offset out of range", 0)
                      @@ [date |-> None]
                 ELSE Raise(NoExc, "", 0) @@ [date |-> hi.date]

\* __calc_high taking the offset of a year-precision value off the year
calc_high_YearOffsetBackwards(wraps, prec, y, m, d, o) ==
    LET month1 == IF prec < PrecisionMonth THEN 12 ELSE m
        mr1    == monthrange(wraps, y, month1)
    IN  IF prec < PrecisionDay /\ mr1.exc # NoExc
        THEN Raise(mr1.exc, "", 0) @@ [date |-> None]
        ELSE LET day1 == IF prec < PrecisionDay THEN mr1.n ELSE d
             IN  IF o # 0 /\ prec = PrecisionYear
                 THEN FinalDate(y - o, month1, day1)
                 ELSE IF o # 0 /\ prec = PrecisionMonth
                 THEN MonthOffsetHigh(wraps, y, month1, o)
                 ELSE IF o # 0 /\ prec = PrecisionDay
                 THEN DayOffsetHigh(y, month1, day1, o)
                 ELSE FinalDate(y, month1, day1)

\* Fuzidate.__calc_high
calc_high(wraps, prec, y, m, d, o) ==
    LET month1 == IF prec < PrecisionMonth THEN 12 ELSE m
        mr1    == monthrange(wraps, y, month1)
    IN  IF prec < PrecisionDay /\ mr1.exc # NoExc
        THEN Raise(mr1.exc, "", 0) @@ [date |-> None]
        ELSE LET day1 == IF prec < PrecisionDay THEN mr1.n ELSE d
             IN  IF o # 0 /\ prec = PrecisionYear
                 THEN FinalDate(y + o, month1, day1)
                 ELSE IF o # 0 /\ prec = PrecisionMonth
                 THEN MonthOffsetHigh(wraps, y, month1, o)
                 ELSE IF o # 0 /\ prec = PrecisionDay
                 THEN DayOffsetHigh(y, month1, day1, o)
                 ELSE FinalDate(y, month1, day1)

\* A raise inside check_valid leaves the memoization cells as they were.
Fails(e, r, a, v, h) == Raise(e, r, a) @@ [validated |-> v, high |-> h]

Returns(v, h) == Raise(NoExc, "", 0) @@ [validated |-> v, high |-> h]

\* DayCheck with the comparison off by one: the last day of a month rejected
DayCheck_LastDayRejected(wraps, y, m, d) ==
    IF d = 0 THEN Raise(NoExc, "", 0)
    ELSE LET mr == monthrange(wraps, y, m)
         IN  IF mr.exc # NoExc THEN Raise(mr.exc, "", 0)
             ELSE IF d >= mr.n THEN Raise(InvalidFuzidateError, "Invalid day", d)
             ELSE Raise(NoExc, "", 0)

\* The day-of-month check of check_valid: "if day: if day > monthrange(...)"
DayCheck(wraps, y, m, d) ==
    IF d = 0 THEN Raise(NoExc, "", 0)
    ELSE LET mr == monthrange(wraps, y, m)
         IN  IF mr.exc # NoExc THEN Raise(mr.exc, "", 0)
             ELSE IF d > mr.n THEN Raise(InvalidFuzidateError, "Invalid day", d)
             ELSE Raise(NoExc, "", 0)

\* check_valid after the all-zero case
CheckSet(wraps, y, m, d, o, v, h) ==
    LET prec == precision(y, m, d)
        dc   == DayCheck(wraps, y, m, d)
    IN  IF prec < PrecisionDay /\ d # 0
        THEN Fails(InvalidFuzidateError, "Day must not be set", 0, v, h)
        ELSE IF m < 0
        THEN Fails(InvalidFuzidateError, "Month must not be negative", 0, v, h)
        ELSE IF prec < PrecisionMonth /\ m # 0
        THEN Fails(InvalidFuzidateError, "Month must not be set", 0, v, h)
        ELSE IF y < 0
        THEN Fails(InvalidFuzidateError, "Year must not be negative", 0, v, h)
        ELSE IF dc.exc # NoExc
        THEN Fails(dc.exc, dc.reason, dc.arg, v, h)
        ELSE IF m # 0 /\ m > 12
        THEN Fails(InvalidFuzidateError, "Invalid month", m, v, h)
        ELSE IF ~(MINYEAR <= y /\ y <= MAXYEAR)
        THEN Fails(InvalidFuzidateError, "Invalid year", y, v, h)
        ELSE IF d < 0
        THEN Fails(InvalidFuzidateError, "Day must not be negative", 0, v, h)
        ELSE IF o < 0
        THEN Fails(InvalidFuzidateError, "Offset must not be negative", 0, v, h)
        ELSE LET ch == calc_high(wraps, prec, y, m, d, o)
             IN  IF ch.exc # NoExc
                 THEN Fails(ch.exc, ch.reason, ch.arg, v, h)
                 ELSE Returns(TRUE, ch.date)

\* check_valid storing date.max in __high before it looks at the offset of
\* an all-zero value
check_valid_HighBeforeOffsetCheck(wraps, y, m, d, o, v, h) ==
    IF v THEN Returns(v, h)
    ELSE IF y = 0 /\ m = 0 /\ d = 0
    THEN IF o # 0
         THEN Fails(InvalidFuzidateError,
                    "Unknown fuzidate may not have offset", 0, v, DateMax)
         ELSE Returns(TRUE, DateMax)
    ELSE CheckSet(wraps, y, m, d, o, v, h)

\* Fuzidate.check_valid on an instance with fields y, m, d, o and cells
\* __validated = v, __high = h: the outcome and the cells afterwards.
check_valid(wraps, y, m, d, o, v, h) ==
    IF v THEN Returns(v, h)
    ELSE IF y = 0 /\ m = 0 /\ d = 0
    THEN IF o # 0
         THEN Fails(InvalidFuzidateError,
                    "Unknown fuzidate may not have offset", 0, v, h)
         ELSE Returns(TRUE, DateMax)
    ELSE CheckSet(wraps, y, m, d, o, v, h)

\* low_date with the unknown month defaulting to December
low_date_DecemberDefault(y, m, d) ==
    date(IF y # 0 THEN y ELSE MINYEAR,
         IF m # 0 THEN m ELSE 12,
         IF d # 0 THEN d ELSE 1)

\* The date built by the low property once check_valid has returned
low_date(y, m, d) ==
    date(IF y # 0 THEN y ELSE MINYEAR,
         IF m # 0 THEN m ELSE 1,
         IF d # 0 THEN d ELSE 1)

\* __eq__ comparing the offset as well
eq_WithOffset(y, m, d, o, oy, om, od, oo) ==
    <<y, m, d, o>> = <<oy, om, od, oo>>

\* __lt__ comparing each component on its own, whatever the components
\* before it
lt_ComponentWise(y, m, d, o, oy, om, od, oo) ==
    \/ y < oy
    \/ m < om
    \/ d < od

\* Fuzidate.__eq__ and Fuzidate.__lt__ on two instances
eq(y, m, d, o, oy, om, od, oo) == <<y, m, d>> = <<oy, om, od>>

lt(y, m, d, o, oy, om, od, oo) ==
    \/ y < oy
    \/ y = oy /\ m < om
    \/ y = oy /\ m = om /\ d < od

\* self > other as functools.total_ordering derives it from __lt__ and
\* __eq__: not (self < other) and self != other
gt(y, m, d, o, oy, om, od, oo) ==
    /\ ~lt(y, m, d, o, oy, om, od, oo)
    /\ ~eq(y, m, d, o, oy, om, od, oo)

\* self < other in the earlier implementation, which keeps only the number
\* that compose() builds from the components
lt_number(y, m, d, o, oy, om, od, oo) ==
    number(y, m, d) < number(oy, om, od)

\* Fuzidate.__bool__ once check_valid has returned
truth(y, m, d, o) == y # 0 \/ m # 0 \/ d # 0 \/ o # 0

(* ------------------------------------------------------------------ *)
(* Text: a string is a sequence of one-character strings               *)
(* ------------------------------------------------------------------ *)
Digits == <<"0", "1", "2", "3", "4", "5", "6", "7", "8", "9">>

IsDigit(c) == \E i \in 1..10 : Digits[i] = c

DigitValue(c) == (CHOOSE i \in 1..10 : Digits[i] = c) - 1

RECURSIVE NatToStr(_)
NatToStr(n) ==
    IF n < 10 THEN <<Digits[n + 1]>>
    ELSE NatToStr(n \div 10) \o <<Digits[(n % 10) + 1]>>

\* '{}'.format(n), '{:d}'.format(n), str(n)
IntToStr(n) == IF n < 0 THEN <<"-">> \o NatToStr(-n) ELSE NatToStr(n)

\* '{:02d}' taken for '{:d}': no padding
Pad2_Unpadded(n) == IntToStr(n)

\* '{:02d}'.format(n): zero-padded to two characters, the sign included
Pad2(n) == IF 0 <= n /\ n < 10 THEN <<"0">> \o NatToStr(n) ELSE IntToStr(n)

\* __str__ with the offset left out of the year-and-month form
str_MonthWithoutOffset(y, m, d, o) ==
    LET offset_str == IF o # 0 THEN <<"+">> \o IntToStr(o) ELSE <<>>
    IN  IF y = 0 /\ m = 0 /\ d = 0
        THEN IF o # 0 THEN <<"0", "+">> \o IntToStr(o) ELSE <<"0">>
        ELSE IF m = 0 /\ d = 0
        THEN IntToStr(y) \o offset_str
        ELSE IF d = 0 /\ y # 0
        THEN IntToStr(y) \o <<"-">> \o Pad2(m)
        ELSE IntToStr(y) \o <<"-">> \o Pad2(m) \o <<"-">> \o Pad2(d)
             \o offset_str

\* Fuzidate.__str__
str(y, m, d, o) ==
    LET offset_str == IF o # 0 THEN <<"+">> \o IntToStr(o) ELSE <<>>
    IN  IF y = 0 /\ m = 0 /\ d = 0
        THEN IF o # 0 THEN <<"0", "+">> \o IntToStr(o) ELSE <<"0">>
        ELSE IF m = 0 /\ d = 0
        THEN IntToStr(y) \o offset_str
        ELSE IF d = 0 /\ y # 0
        THEN IntToStr(y) \o <<"-">> \o Pad2(m) \o offset_str
        ELSE IntToStr(y) \o <<"-">> \o Pad2(m) \o <<"-">> \o Pad2(d)
             \o offset_str

\* Number of consecutive digits of s from position i on: a greedy \d+
RECURSIVE DigitRun(_, _)
DigitRun(s, i) ==
    IF i <= Len(s) /\ IsDigit(s[i]) THEN 1 + DigitRun(s, i + 1) ELSE 0

\* int() of the digits s[i] .. s[i + n - 1]
RECURSIVE DigitsToInt(_, _, _)
DigitsToInt(s, i, n) ==
    IF n = 0 THEN 0
    ELSE DigitsToInt(s, i, n - 1) * 10 + DigitValue(s[i + n - 1])

\* An optional group <sep>\d+ at position i: its length (0 when it does not
\* match, and then the pattern goes on without it)
GroupLen(s, i, sep) ==
    IF i <= Len(s) /\ s[i] = sep /\ DigitRun(s, i + 1) > 0
    THEN 1 + DigitRun(s, i + 1) ELSE 0

\* int(group or 0) of such a group
GroupInt(s, i, len) == IF len = 0 THEN 0 ELSE DigitsToInt(s, i + 1, len - 1)

\* re.match(r'^(\d+)(?:-(\d+)(?:-(\d+))?)?(\+\d+)?$', s) and the int()
\* conversions of Fuzidate.parse: the four numbers, or the ValueError of
\* 'Fuzidate parse error'.  $ also matches before a final newline.
parse_fields(s) ==
    LET ylen == DigitRun(s, 1)
        mpos == 1 + ylen
        mlen == GroupLen(s, mpos, "-")
        dpos == mpos + mlen
        dlen == IF mlen = 0 THEN 0 ELSE GroupLen(s, dpos, "-")
        opos == dpos + dlen
        olen == GroupLen(s, opos, "+")
        end  == opos + olen
    IN  IF ylen > 0 /\ (end = Len(s) + 1 \/ (end = Len(s) /\ s[end] = "\n"))
        THEN [exc |-> NoExc,
              fields |-> <<DigitsToInt(s, 1, ylen), GroupInt(s, mpos, mlen),
                           GroupInt(s, dpos, dlen), GroupInt(s, opos, olen)>>]
        ELSE [exc |-> ValueError, fields |-> None]

\* math.floor(a / b) for b > 0
FloorDiv(a, b) == IF a >= 0 THEN a \div b ELSE -(((-a) + b - 1) \div b)

\* The decomposition of Fuzidate.from_int
from_int_fields(i, o) ==
    <<FloorDiv(i, 10000), FloorDiv(i, 100) % 100, i % 100, o>>

(* ------------------------------------------------------------------ *)
(* The earlier implementation (src/fuzidate.py), which keeps the number *)
(* and derives year, month and day from it, and its using().  Its       *)
(* __calc_high, precision, low and is_valid read as the later ones.     *)
(* ------------------------------------------------------------------ *)
\* Fuzidate.compose of the earlier implementation: the year, month and day
\* its instance derives from the number it makes, or the ValueError
compose_old(y, m, d, o) ==
    IF y < 0 \/ m < 0 \/ d < 0
    THEN [exc |-> ValueError, fields |-> None]
    ELSE [exc |-> NoExc, fields |-> from_int_fields(number(y, m, d), o)]

\* check_valid of the earlier implementation after the "not self.__number"
\* case
CheckSetOld(wraps, y, m, d, o, v, h) ==
    LET prec == precision(y, m, d)
        dc   == DayCheck(wraps, y, m, d)
    IN  IF prec < PrecisionDay /\ d # 0
        THEN Fails(InvalidFuzidateError, "Day must not be set", 0, v, h)
        ELSE IF prec < PrecisionMonth /\ m # 0
        THEN Fails(InvalidFuzidateError, "Month must not be set", 0, v, h)
        ELSE IF dc.exc # NoExc
        THEN Fails(dc.exc, dc.reason, dc.arg, v, h)
        ELSE IF m # 0 /\ m > 12
        THEN Fails(InvalidFuzidateError, "Invalid month", m, v, h)
        ELSE IF ~(MINYEAR <= y /\ y <= MAXYEAR)
        THEN Fails(InvalidFuzidateError, "Invalid year", y, v, h)
        ELSE IF o < 0
        THEN Fails(InvalidFuzidateError, "Offset must not be negative", 0, v, h)
        ELSE LET ch == calc_high(wraps, prec, y, m, d, o)
             IN  IF ch.exc # NoExc
                 THEN Fails(ch.exc, ch.reason, ch.arg, v, h)
                 ELSE Returns(TRUE, ch.date)

\* check_valid of the earlier implementation
check_valid_old(wraps, y, m, d, o, v, h) ==
    IF v THEN Returns(v, h)
    ELSE IF number(y, m, d) = 0
    THEN IF o # 0
         THEN Fails(InvalidFuzidateError,
                    "Unknown fuzidate may not have offset", 0, v, h)
         ELSE Returns(TRUE, DateMax)
    ELSE CheckSetOld(wraps, y, m, d, o, v, h)

\* The value using(p) returns once check_valid has returned: Fuzidate.unknown
\* or what compose makes
using_value(p, y, m, d) ==
    LET y1 == IF y # 0 THEN y ELSE MINYEAR
        m1 == IF m # 0 THEN m ELSE 1
        d1 == IF d # 0 THEN d ELSE 1
    IN  IF p = PrecisionNone THEN [exc |-> NoExc, fields |-> <<0, 0, 0, 0>>]
        ELSE IF p = PrecisionYear THEN compose_old(y1, 0, 0, 0)
        ELSE IF p = PrecisionMonth THEN compose_old(y1, m1, 0, 0)
        ELSE compose_old(y1, m1, d1, 0)

\* using with Precision.none handled as Precision.year
using_NoneKeepsYear(wraps, p, y, m, d, o, v, h) ==
    IF o # 0
    THEN Fails(NotImplementedError, "", 0, v, h) @@ [fields |-> None]
    ELSE LET cv == check_valid_old(wraps, y, m, d, o, v, h)
             c  == using_value(IF p = PrecisionNone THEN PrecisionYear ELSE p,
                               y, m, d)
         IN  IF cv.exc # NoExc THEN cv @@ [fields |-> None]
             ELSE Raise(c.exc, "", 0)
                  @@ [validated |-> cv.validated, high |-> cv.high,
                      fields |-> c.fields]

\* using with Precision.month handled as Precision.day
using_MonthKeepsDay(wraps, p, y, m, d, o, v, h) ==
    IF o # 0
    THEN Fails(NotImplementedError, "", 0, v, h) @@ [fields |-> None]
    ELSE LET cv == check_valid_old(wraps, y, m, d, o, v, h)
             c  == using_value(IF p = PrecisionMonth THEN PrecisionDay ELSE p,
                               y, m, d)
         IN  IF cv.exc # NoExc THEN cv @@ [fields |-> None]
             ELSE Raise(c.exc, "", 0)
                  @@ [validated |-> cv.validated, high |-> cv.high,
                      fields |-> c.fields]

\* Fuzidate.using(precision) on an instance with fields y, m, d, o and cells
\* v, h: the outcome, the fields of the value returned, and the cells
\* afterwards
using(wraps, p, y, m, d, o, v, h) ==
    IF o # 0
    THEN Fails(NotImplementedError, "", 0, v, h) @@ [fields |-> None]
    ELSE LET cv == check_valid_old(wraps, y, m, d, o, v, h)
             c  == using_value(p, y, m, d)
         IN  IF cv.exc # NoExc THEN cv @@ [fields |-> None]
             ELSE Raise(c.exc, "", 0)
                  @@ [validated |-> cv.validated, high |-> cv.high,
                      fields |-> c.fields]

(* ------------------------------------------------------------------ *)
(* from_int beyond 32 bits.  Python integers are unbounded and i / 10000  *)
(* is a float: the quotient rounded to the nearest double, of 53          *)
(* significant bits.  A wide integer <<hi, lo>> stands for                *)
(* hi * 10^8 + lo with 0 <= lo < 10^8 and 0 <= hi < 2^31.                 *)
(* ------------------------------------------------------------------ *)
WideBase == 10000 * 10000

\* The quotient of the wide n by b (100 or 10000), as <<hi, lo>> standing
\* for hi * (WideBase / b) + lo, and the remainder
WideQuot(n, b) == <<n[1], n[2] \div b>>
WideRem(n, b) == n[2] % b

\* Twice the <<hi, lo>> of the given base
Twice(h, base) == <<2 * h[1] + (2 * h[2]) \div base, (2 * h[2]) % base>>

\* 2^k as <<hi, lo>> in the given base, for 2^k below 2^31 * base
RECURSIVE Pow2(_, _)
Pow2(k, base) ==
    IF k <= 30 THEN <<(2^k) \div base, (2^k) % base>>
    ELSE Twice(Pow2(k - 1, base), base)

PairGeq(a, b) == a[1] > b[1] \/ (a[1] = b[1] /\ a[2] >= b[2])

\* The binary exponent of q in the given base, the largest k <= top with
\* 2^k <= q, when it is 40 or more; 39 stands for every smaller one, none of
\* which lets i / b round up
RECURSIVE Exponent(_, _, _)
Exponent(q, base, top) ==
    IF top = 39 \/ PairGeq(q, Pow2(top, base)) THEN top
    ELSE Exponent(q, base, top - 1)

\* The largest binary exponent a quotient by b can have: 44 for b = 10000,
\* 50 for b = 100
TopExponent(b) == IF b = 10000 THEN 44 ELSE 50

\* Whether i / b, q + r/b exactly, rounds up to the double q + 1.  Doubles
\* near q in [2^e, 2^(e+1)) are 2^(e-52) apart, so it does when
\* (b - r) / b < 2^(e-53); a tie would need e >= 49, beyond the quotients
\* of wide integers by 10000, or e >= 51, beyond those by 100.
RoundsUp(n, b) ==
    LET q == WideQuot(n, b)
        r == WideRem(n, b)
        e == Exponent(q, WideBase \div b, TopExponent(b))
    IN  /\ r # 0
        /\ e >= 40
        /\ (b - r) * 2^(53 - e) < b

\* math.floor(i / b) on a wide i, as WideQuot gives a quotient
FloatFloorDiv(n, b) ==
    LET q == WideQuot(n, b)
        base == WideBase \div b
    IN  IF RoundsUp(n, b)
        THEN IF q[2] + 1 = base THEN <<q[1] + 1, 0>> ELSE <<q[1], q[2] + 1>>
        ELSE q

\* The decomposition of Fuzidate.from_int on a wide i: the year as
\* <<hi, lo>> for hi * 10000 + lo, then month, day and offset
from_int_wide(i, o) ==
    <<FloatFloorDiv(i, 10000), FloatFloorDiv(i, 100)[2] % 100, i[2] % 100, o>>

\* Fuzidate.number of an instance whose year is <<hi, lo>>, as a wide
\* integer
number_wide(y, m, d) ==
    LET low8 == y[2] * 10000 + m * 100 + d
    IN  <<y[1] + low8 \div WideBase, low8 % WideBase>>

(* ------------------------------------------------------------------ *)
(* Inputs                                                              *)
(* ------------------------------------------------------------------ *)
\* compose() arguments.  Edge values of every field, crossed:
EdgeArgs ==
    {-1, 0, 1, 1914, MAXYEAR, MaxYearArg}
    \X {-1, 0, 1, 2, 12, MaxMonthArg}
    \X {-1, 0, 1, 28, 29, MaxDayArg}
    \X {-1, 0, 1}

\* Month lengths and leap years:
CalendarArgs ==
    {1900, 1914, 1916, 2000} \X (1..12) \X ({0} \cup (28..MaxDayArg)) \X {0, 1}

\* Month precision with an offset that carries into later years:
MonthOffsetArgs ==
    {1914, 1915, MAXYEAR - 1, MAXYEAR} \X (1..12) \X {0}
    \X ((1..MaxSmallOffset) \cup {17, 18, 19, 41})

\* Year and day precision with offsets up to the largest the library takes:
LongOffsetArgs ==
    {<<y, md[1], md[2], o>> :
        y \in {1, 1914, 1916, MAXYEAR - 1, MAXYEAR},
        md \in {<<0, 0>>, <<7, 0>>, <<1, 1>>, <<2, 28>>, <<7, 28>>, <<12, 31>>},
        o \in {2, 5, 25, 365, 366, MAXORDINAL - 1, MaxDeltaDays,
               MaxDeltaDays + 1}}

\* Months and days of two and of three decimal digits, unvalidated values
\* included:
EncodingArgs == {1914} \X {0, 7, 99, 100} \X {0, 99, 100} \X {0}

ComposeArgs ==
    EdgeArgs \cup CalendarArgs \cup MonthOffsetArgs \cup LongOffsetArgs
    \cup EncodingArgs

IntArgs == {number(y, m, d) : y \in {0, 1914, 9999}, m \in {0, 7, 13},
                              d \in {0, 1, 28}}
           \cup {1, 100, 10000, 100000, 19140740, -19140700}

IntOffsetArgs == {0, 2}

ParseArgs == {str(y, m, d, o) : y \in {0, 1914}, m \in {0, 7},
                                d \in {0, 28, 40}, o \in {0, 2}}
             \cup { <<"1", "9", "1", "4", "-", "7">>,
                    <<"1", "9", "1", "4", "-", "0", "7", "-", "0", "2", "8">>,
                    <<"1", "9", "1", "4", "-", "7", "+", "0", "2">>,
                    <<"1", "9", "1", "4", "-">>,
                    <<"1", "9", "1", "4", "+">>,
                    <<"1", "9", "1", "4", "\n">>,
                    <<"-", "7">>,
                    <<"i", "n", "v", "a", "l", "i", "d">>,
                    <<>> }

DateArgs == {DateMin, DateMax, <<1, 12, 31>>, <<1900, 2, 28>>, <<1914, 7, 28>>,
             <<1916, 2, 29>>, <<2000, 2, 29>>, <<MAXYEAR, 1, 1>>}

\* from_int() arguments beyond 32 bits, as wide integers: around the
\* smallest quotients by 10000 and by 100 that are 2^40 and 2^47 or more
WideIntArgs ==
    {0, 1, 191407, 99999999, 109951161, 109951162, 140737488, 219902325,
     879609302, 1999999999}
    \X {0, 1, 99, 100, 9999, 10000, 19140728, 35532799, 35532899, 55529999,
        77759999, 77769998, 77769999, 77770000, 99999998, 99999999}

\* compose() arguments of the earlier implementation, for using()
UsingArgs ==
    ({0, 1, 1914, 1916, MAXYEAR, MaxYearArg} \X {0, 1, 2, 7, 12, MaxMonthArg}
        \X {0, 1, 28, 29, 30, 31, MaxDayArg, 100} \X {0, 2})
    \cup ({-1, 1914} \X {-1, 7} \X {-1, 28} \X {0})

Precisions == PrecisionNone .. PrecisionDay

\* The right-hand operands of comparisons: a few fixed values
OtherArgs == { <<1914, 7, 0, 0>>, <<1914, 7, 28, 20>> }

\* The threads that call into one instance
Threads == 1 .. NThreads

\* What a call of a thread gave
OutOf(op, exc, lo, hi, flag) ==
    [op |-> op, exc |-> exc, lo |-> lo, hi |-> hi, flag |-> flag]

\* A thread between calls: pc where it is, op the call, part the property
\* being read, h and lo its locals, out what its last call gave
Idle ==
    [pc |-> "idle", op |-> "none", part |-> "none", h |-> None, lo |-> None,
     out |-> OutOf("none", NoExc, None, None, FALSE)]

\* Instances the threads share: valid ones of each precision, and two that
\* are not valid
ThreadArgs ==
    { <<0, 0, 0, 0>>, <<1914, 0, 0, 0>>, <<1914, 7, 0, 2>>, <<1916, 2, 29, 0>>,
      <<1914, 7, 28, 25>>, <<MAXYEAR, 12, 0, 0>>,
      <<1914, MaxMonthArg, 1, 0>>, <<MAXYEAR, 12, 31, 1>> }

(* ------------------------------------------------------------------ *)
(* State                                                               *)
(* ------------------------------------------------------------------ *)
VARIABLES
    pc,          \* "start": no instance yet; "live"; "failed": __init__ raised
    wraps,       \* the calendar module in use, see monthrange
    year, month, day, offset,      \* self.__year .. self.__offset
    validated, high, low,          \* self.__validated, __high, __low
    res,         \* the last call and its outcome
    threads      \* of each thread calling into the instance: where it is
                 \* in its call, its locals and what its last call gave

vars == <<pc, wraps, year, month, day, offset, validated, high, low, res,
          threads>>

fields == <<year, month, day, offset>>

\* An outcome record: op the call, exc/reason/arg how it ended, and its
\* value in the field of its type (lo/hi dates, flag, text, other: the four
\* fields of the other Fuzidate the call took or made; input: the argument
\* of a call whose outcome is to be compared with it).
Result(op, exc, reason, arg) ==
    [op |-> op, exc |-> exc, reason |-> reason, arg |-> arg,
     lo |-> None, hi |-> None, flag |-> FALSE, text |-> <<>>, other |-> None,
     input |-> None]

Init ==
    /\ pc = "start"
    /\ wraps \in BOOLEAN
    /\ year = 0 /\ month = 0 /\ day = 0 /\ offset = 0
    /\ validated = FALSE /\ high = None /\ low = None
    /\ res = Result("none", NoExc, "", 0)
    /\ threads = [t \in Threads |-> Idle]

\* Fuzidate.__init__(year, month, day, offset, validate=validate), reached
\* through the constructor named op
Construct(op, f, validate) ==
    /\ year' = f[1] /\ month' = f[2] /\ day' = f[3] /\ offset' = f[4]
    /\ low' = None
    /\ IF validate
       THEN \E cv \in {check_valid(wraps, f[1], f[2], f[3], f[4],
                                   FALSE, None)} :
                /\ validated' = cv.validated
                /\ high' = cv.high
                /\ pc' = IF cv.exc = NoExc THEN "live" ELSE "failed"
                /\ res' = [Result(op, cv.exc, cv.reason, cv.arg)
                              EXCEPT !.flag = validate]
       ELSE /\ validated' = FALSE
            /\ high' = None
            /\ pc' = "live"
            /\ res' = [Result(op, NoExc, "", 0) EXCEPT !.flag = validate]
    /\ UNCHANGED <<wraps, threads>>

Compose ==
    /\ pc = "start"
    /\ \E f \in ComposeArgs, validate \in BOOLEAN :
           Construct("compose", f, validate)

FromInt ==
    /\ pc = "start"
    /\ \E i \in IntArgs, o \in IntOffsetArgs, validate \in BOOLEAN :
           Construct("from_int", from_int_fields(i, o), validate)

\* from_date handing the day over as the month and the month as the day
FromDate_MonthDaySwapped ==
    /\ pc = "start"
    /\ \E dt \in DateArgs :
           Construct("from_date", <<dt[1], dt[3], dt[2], 0>>, FALSE)

FromDate ==
    /\ pc = "start"
    /\ \E dt \in DateArgs :
           Construct("from_date", <<dt[1], dt[2], dt[3], 0>>, FALSE)

Parse ==
    /\ pc = "start"
    /\ \E s \in ParseArgs, validate \in BOOLEAN :
           LET p == parse_fields(s)
           IN  IF p.exc = NoExc
               THEN Construct("parse", p.fields, validate)
               ELSE /\ pc' = "failed"
                    /\ res' = [Result("parse", p.exc, "Fuzidate parse error", 0)
                                  EXCEPT !.flag = validate, !.text = s]
                    /\ UNCHANGED <<wraps, year, month, day, offset,
                                   validated, high, low, threads>>

(* ------------------------------------------------------------------ *)
(* Operations on the instance                                          *)
(* ------------------------------------------------------------------ *)
SelfCheck == check_valid(wraps, year, month, day, offset, validated, high)

Fixed == UNCHANGED <<pc, wraps, year, month, day, offset, threads>>

\* self.check_valid()
CheckValid ==
    /\ pc = "live"
    /\ \E cv \in {SelfCheck} :
        /\ validated' = cv.validated
        /\ high' = cv.high
        /\ res' = Result("check_valid", cv.exc, cv.reason, cv.arg)
    /\ UNCHANGED low
    /\ Fixed

\* self.is_valid: only InvalidFuzidateError is caught
is_valid_result(cv) ==
    IF cv.exc = InvalidFuzidateError
    THEN [Result("is_valid", NoExc, "", 0) EXCEPT !.flag = FALSE]
    ELSE IF cv.exc = NoExc
    THEN [Result("is_valid", NoExc, "", 0) EXCEPT !.flag = TRUE]
    ELSE Result("is_valid", cv.exc, cv.reason, cv.arg)

IsValid ==
    /\ pc = "live"
    /\ \E cv \in {SelfCheck} :
        /\ validated' = cv.validated
        /\ high' = cv.high
        /\ res' = is_valid_result(cv)
    /\ UNCHANGED low
    /\ Fixed

\* self.high
High ==
    /\ pc = "live"
    /\ \E cv \in {SelfCheck} :
        /\ validated' = cv.validated
        /\ high' = cv.high
        /\ res' = IF cv.exc = NoExc
                  THEN [Result("high", NoExc, "", 0) EXCEPT !.hi = cv.high]
                  ELSE Result("high", cv.exc, cv.reason, cv.arg)
    /\ UNCHANGED low
    /\ Fixed

\* The low property on an instance whose cell __low is l, cv being the
\* outcome of the check_valid call it makes when l is None: the outcome, and
\* the cells afterwards
low_get(cv, y, m, d, v, h, l) ==
    IF l # None
    THEN Raise(NoExc, "", 0) @@ [validated |-> v, high |-> h, low |-> l]
    ELSE IF cv.exc # NoExc
    THEN cv @@ [low |-> l]
    ELSE LET ld == low_date(y, m, d)
         IN  IF ld.exc # NoExc
             THEN Raise(ld.exc, "", 0)
                  @@ [validated |-> cv.validated, high |-> cv.high, low |-> l]
             ELSE Raise(NoExc, "", 0)
                  @@ [validated |-> cv.validated, high |-> cv.high,
                      low |-> ld.date]

\* self.low
Low ==
    /\ pc = "live"
    /\ \E cv \in {SelfCheck} :
       \E lg \in {low_get(cv, year, month, day, validated, high, low)} :
        /\ validated' = lg.validated
        /\ high' = lg.high
        /\ low' = lg.low
        /\ res' = IF lg.exc = NoExc
                  THEN [Result("low", NoExc, "", 0) EXCEPT !.lo = lg.low]
                  ELSE Result("low", lg.exc, lg.reason, lg.arg)
    /\ Fixed

\* self.range: self.low, then self.high
Range ==
    /\ pc = "live"
    /\ \E cv1 \in {SelfCheck} :
       \E lg \in {low_get(cv1, year, month, day, validated, high, low)} :
       \E cv \in {check_valid(wraps, year, month, day, offset,
                              lg.validated, lg.high)} :
        /\ low' = lg.low
        /\ IF lg.exc # NoExc
           THEN /\ validated' = lg.validated
                /\ high' = lg.high
                /\ res' = Result("range", lg.exc, lg.reason, lg.arg)
           ELSE /\ validated' = cv.validated
                /\ high' = cv.high
                /\ res' = IF cv.exc = NoExc
                          THEN [Result("range", NoExc, "", 0)
                                   EXCEPT !.lo = lg.low, !.hi = cv.high]
                          ELSE Result("range", cv.exc, cv.reason, cv.arg)
    /\ Fixed

\* bool(self)
Bool ==
    /\ pc = "live"
    /\ \E cv \in {SelfCheck} :
        /\ validated' = cv.validated
        /\ high' = cv.high
        /\ res' = IF cv.exc = NoExc
                  THEN [Result("bool", NoExc, "", 0)
                           EXCEPT !.flag = truth(year, month, day, offset)]
                  ELSE Result("bool", cv.exc, cv.reason, cv.arg)
    /\ UNCHANGED low
    /\ Fixed

\* str(self)
Str ==
    /\ pc = "live"
    /\ res' = [Result("str", NoExc, "", 0)
                  EXCEPT !.text = str(year, month, day, offset)]
    /\ UNCHANGED <<validated, high, low>>
    /\ Fixed

\* Fuzidate.parse(str(self)): the fields of the instance it makes, or how it
\* fails
parse_str(w, y, m, d, o) ==
    LET s  == str(y, m, d, o)
        p  == parse_fields(s)
        f  == p.fields
        cv == check_valid(w, f[1], f[2], f[3], f[4], FALSE, None)
    IN  IF p.exc # NoExc
        THEN [Result("parse_str", p.exc, "Fuzidate parse error", 0)
                 EXCEPT !.text = s]
        ELSE IF cv.exc # NoExc
        THEN [Result("parse_str", cv.exc, cv.reason, cv.arg) EXCEPT !.text = s]
        ELSE [Result("parse_str", NoExc, "", 0) EXCEPT !.text = s, !.other = f]

ParseStr ==
    /\ pc = "live"
    /\ res' = parse_str(wraps, year, month, day, offset)
    /\ UNCHANGED <<validated, high, low>>
    /\ Fixed

\* The other operand: a fixed value, a copy of self with another offset, the
\* month after self's, or the year after self's
Others ==
    OtherArgs \cup {<<year, month, day, offset + 1>>,
                    <<year, month + 1, 0, 0>>,
                    <<year + 1, 0, 0, 0>>}

\* self == other
Eq ==
    \E f \in Others :
        /\ pc = "live"
        /\ res' = [Result("eq", NoExc, "", 0)
                      EXCEPT !.other = f,
                             !.flag = eq(year, month, day, offset,
                                         f[1], f[2], f[3], f[4])]
        /\ UNCHANGED <<validated, high, low>>
        /\ Fixed

\* self < other
Lt ==
    \E f \in Others :
        /\ pc = "live"
        /\ res' = [Result("lt", NoExc, "", 0)
                      EXCEPT !.other = f,
                             !.flag = lt(year, month, day, offset,
                                         f[1], f[2], f[3], f[4])]
        /\ UNCHANGED <<validated, high, low>>
        /\ Fixed

\* from_int(i, validate=False) on a wide i; the year of the instance is kept
\* as <<hi, lo>> for hi * 10000 + lo
FromIntWide ==
    /\ pc = "start"
    /\ \E i \in WideIntArgs :
       \E f \in {from_int_wide(i, 0)} :
        /\ year' = f[1] /\ month' = f[2] /\ day' = f[3] /\ offset' = f[4]
        /\ res' = [Result("from_int", NoExc, "", 0) EXCEPT !.input = i]
    /\ pc' = "live"
    /\ UNCHANGED <<wraps, validated, high, low, threads>>

\* self.number of an instance made from a wide integer, which res.input
\* keeps for comparison
NumberWide ==
    /\ pc = "live"
    /\ res.op = "from_int"
    /\ res' = [Result("number", NoExc, "", 0)
                  EXCEPT !.other = number_wide(year, month, day),
                         !.input = res.input]
    /\ UNCHANGED <<validated, high, low>>
    /\ Fixed

\* Fuzidate.compose(year, month, day, offset) of the earlier
\* implementation; year, month and day are those its instance derives from
\* the number
ComposeOld ==
    /\ pc = "start"
    /\ \E f \in UsingArgs :
       \E c \in {compose_old(f[1], f[2], f[3], f[4])} :
           IF c.exc = NoExc
           THEN /\ year' = c.fields[1] /\ month' = c.fields[2]
                /\ day' = c.fields[3] /\ offset' = c.fields[4]
                /\ pc' = "live"
                /\ res' = [Result("compose", NoExc, "", 0) EXCEPT !.input = f]
           ELSE /\ pc' = "failed"
                /\ res' = [Result("compose", c.exc, "", 0) EXCEPT !.input = f]
                /\ UNCHANGED <<year, month, day, offset>>
    /\ UNCHANGED <<wraps, validated, high, low, threads>>

\* self.check_valid() of the earlier implementation
CheckValidOld ==
    /\ pc = "live"
    /\ \E cv \in {check_valid_old(wraps, year, month, day, offset,
                                  validated, high)} :
        /\ validated' = cv.validated
        /\ high' = cv.high
        /\ res' = Result("check_valid", cv.exc, cv.reason, cv.arg)
    /\ UNCHANGED low
    /\ Fixed

\* self.using(p)
Using ==
    /\ pc = "live"
    /\ \E p \in Precisions :
       \E u \in {using(wraps, p, year, month, day, offset, validated, high)} :
        /\ validated' = u.validated
        /\ high' = u.high
        /\ res' = [Result("using", u.exc, u.reason, u.arg)
                      EXCEPT !.other = u.fields, !.input = p]
    /\ UNCHANGED low
    /\ Fixed

Next ==
    \/ Compose
    \/ FromInt
    \/ FromDate
    \/ Parse
    \/ CheckValid
    \/ IsValid
    \/ High
    \/ Low
    \/ Range
    \/ Bool
    \/ Str
    \/ ParseStr
    \/ Eq
    \/ Lt

Spec == Init /\ [][Next]_vars

(* ------------------------------------------------------------------ *)
(* The calendar as the specification states it, written without the    *)
(* library: used only to state properties                              *)
(* ------------------------------------------------------------------ *)
GregorianLeap(y) == (y % 4 = 0 /\ y % 100 # 0) \/ y % 400 = 0

MonthLength(y, m) ==
    IF m = 2 THEN (IF GregorianLeap(y) THEN 29 ELSE 28)
    ELSE IF m \in {4, 6, 9, 11} THEN 30
    ELSE 31

RECURSIVE DaysOfMonthsBefore(_, _)
DaysOfMonthsBefore(y, m) ==
    IF m <= 1 THEN 0
    ELSE DaysOfMonthsBefore(y, m - 1) + MonthLength(y, m - 1)

\* Number of leap years among 1 .. y
LeapYearsUpTo(y) == (y \div 4) - (y \div 100) + (y \div 400)

\* Days from 0001-01-01 (day 1) to the date y-m-d
DayNumber(y, m, d) ==
    365 * (y - 1) + LeapYearsUpTo(y - 1) + DaysOfMonthsBefore(y, m) + d

IsCalendarDate(dt) ==
    /\ Len(dt) = 3
    /\ 1 <= dt[1] /\ dt[1] <= 9999
    /\ 1 <= dt[2] /\ dt[2] <= 12
    /\ 1 <= dt[3] /\ dt[3] <= MonthLength(dt[1], dt[2])

\* Year, month and day pass the component checks
ComponentsOk(y, m, d) ==
    /\ 1 <= y /\ y <= 9999
    /\ 0 <= m /\ m <= 12
    /\ d = 0 \/ (m >= 1 /\ 1 <= d /\ d <= MonthLength(y, m))

\* The upper bound derived from the offset is not after 9999-12-31
UpperInRange(y, m, d, o) ==
    IF m = 0 THEN y + o <= 9999
    ELSE IF d = 0 THEN 12 * y + (m - 1) + o <= 12 * 9999 + 11
    ELSE DayNumber(y, m, d) + o <= DayNumber(9999, 12, 31)

AllZero(y, m, d, o) == y = 0 /\ m = 0 /\ d = 0 /\ o = 0

StatedValid(y, m, d, o) ==
    \/ AllZero(y, m, d, o)
    \/ /\ ComponentsOk(y, m, d)
       /\ o >= 0
       /\ UpperInRange(y, m, d, o)

SelfValid == StatedValid(year, month, day, offset)

Constructors == {"compose", "from_int", "from_date", "parse"}

\* A call that ran check_valid on the instance and hands on what it raised
Validating == {"check_valid", "low", "high", "range", "bool"}

(* ------------------------------------------------------------------ *)
(* Properties                                                          *)
(* ------------------------------------------------------------------ *)

\* C1: reading is_valid on an instance built with validation deferred, from
\* any integers, returns True or False and never raises.
C1_IsValidNeverRaises ==
    (pc = "live" /\ res.op = "is_valid") => res.exc = NoExc

\* C2: check_valid succeeds exactly when all four fields are 0, or
\* 1 <= year <= 9999, 0 <= month <= 12, day is 0 or a day of that month
\* (month set), offset >= 0 and the upper bound derived from the offset is
\* not after 9999-12-31; the same holds of a validating constructor.
C2_ValidExactlyWhenStated ==
    /\ (pc = "live" /\ res.op = "check_valid")
           => (res.exc = NoExc <=> SelfValid)
    /\ (pc # "start" /\ res.op \in Constructors /\ res.flag
        /\ res.reason # "Fuzidate parse error")
           => (res.exc = NoExc <=> SelfValid)
    /\ (pc = "live" /\ validated)
           => /\ day # 0 => month # 0
              /\ month # 0 => year # 0
              /\ (year = 0 /\ month = 0 /\ day = 0) => offset = 0

\* C2 witness: check_valid has accepted February 29 of a leap year with an
\* offset, and the instance is validated.
C2_Witness ==
    /\ pc = "live" /\ res.op = "check_valid" /\ res.exc = NoExc /\ validated
    /\ month = 2 /\ day = 29 /\ offset = 1

\* C3: a constructor with validation deferred never fails; on such an
\* instance that is invalid each of check_valid, low, high, range and bool()
\* raises InvalidFuzidateError; a validating constructor raises exactly when
\* check_valid would.
C3_DeferredThenInvalidFuzidateError ==
    /\ (pc # "start" /\ res.op \in Constructors /\ ~res.flag
        /\ res.reason # "Fuzidate parse error")
           => (pc = "live" /\ res.exc = NoExc)
    /\ (pc = "live" /\ res.op \in Validating /\ ~SelfValid)
           => res.exc = InvalidFuzidateError
    /\ (pc # "start" /\ res.op \in Constructors /\ res.flag
        /\ res.reason # "Fuzidate parse error")
           => (pc = "failed"
               <=> check_valid(wraps, year, month, day, offset,
                               FALSE, None).exc # NoExc)

\* The date C4 states: the known components, 1 for each unknown one
StatedLow == <<IF year # 0 THEN year ELSE 1,
               IF month # 0 THEN month ELSE 1,
               IF day # 0 THEN day ELSE 1>>

\* C4: for every valid value, low is the date (year or 1, month or 1,
\* day or 1) whatever the offset; the unknown value's low is 0001-01-01.
C4_LowIsEarliestDate ==
    (pc = "live" /\ res.op \in {"low", "range"} /\ SelfValid)
        => /\ res.exc = NoExc
           /\ res.lo = StatedLow
           /\ low = StatedLow
           /\ (year = 0 => res.lo = <<1, 1, 1>>)

\* C4 witness: low read on a valid year-precision value with an offset
C4_Witness ==
    /\ pc = "live" /\ res.op = "low" /\ res.exc = NoExc
    /\ year = 1914 /\ month = 0 /\ day = 0 /\ offset = 5
    /\ res.lo = <<1914, 1, 1>>

\* The upper bound C5 states for offset 0
StatedHighNoOffset ==
    IF year = 0 THEN <<9999, 12, 31>>
    ELSE IF month = 0 THEN <<year, 12, 31>>
    ELSE IF day = 0 THEN <<year, month, MonthLength(year, month)>>
    ELSE <<year, month, day>>

\* C5: for every valid value with offset 0, high is 9999-12-31 for the
\* unknown value, December 31 at year precision, the last day of the month
\* at month precision (February: 29 exactly in Gregorian leap years, else
\* 28) and the date itself at day precision.
C5_HighWithoutOffset ==
    (pc = "live" /\ res.op \in {"high", "range"} /\ SelfValid /\ offset = 0)
        => /\ res.exc = NoExc
           /\ res.hi = StatedHighNoOffset
           /\ high = res.hi
           /\ (year # 0 /\ month = 2 /\ day = 0)
                  => res.hi[3] = (IF GregorianLeap(year) THEN 29 ELSE 28)

\* C5 witness: high read on February of a century year that is not leap
C5_Witness ==
    /\ pc = "live" /\ res.op = "high" /\ res.exc = NoExc
    /\ year = 1900 /\ month = 2 /\ day = 0 /\ offset = 0
    /\ res.hi = <<1900, 2, 28>>

\* C6: for a valid month-precision value (y, m) with offset k > 0, high is
\* the last day of the month k months later: with t = 12*y + (m-1) + k the
\* year is t div 12 and the month (t mod 12) + 1.
C6_MonthOffsetCarry ==
    (pc = "live" /\ res.op \in {"high", "range"} /\ SelfValid
     /\ year # 0 /\ month # 0 /\ day = 0 /\ offset > 0)
        => LET t == 12 * year + (month - 1) + offset
           IN  /\ res.exc = NoExc
               /\ res.hi = <<t \div 12, (t % 12) + 1,
                             MonthLength(t \div 12, (t % 12) + 1)>>

\* C6 witness: 1914-07 +17 gives 1915-12-31
C6_Witness ==
    /\ pc = "live" /\ res.op = "high" /\ res.exc = NoExc
    /\ year = 1914 /\ month = 7 /\ day = 0 /\ offset = 17
    /\ res.hi = <<1915, 12, 31>>

\* C7: the offset counts in the unit of the precision: at year precision
\* high is December 31 of year + k; at day precision high is the calendar
\* date exactly k days after (year, month, day).
C7_OffsetInUnitOfPrecision ==
    (pc = "live" /\ res.op \in {"high", "range"} /\ SelfValid /\ year # 0)
        => /\ month = 0 => (res.exc = NoExc /\ res.hi = <<year + offset, 12, 31>>)
           /\ day # 0
                => /\ res.exc = NoExc
                   /\ IsCalendarDate(res.hi)
                   /\ DayNumber(res.hi[1], res.hi[2], res.hi[3])
                          = DayNumber(year, month, day) + offset

\* C7 witness: 1916-02-28 + 366 days crosses a leap day and a year end
C7_Witness ==
    /\ pc = "live" /\ res.op = "high" /\ res.exc = NoExc
    /\ year = 1916 /\ month = 2 /\ day = 28 /\ offset = 366
    /\ res.hi = <<1917, 2, 28>>

\* C8: when year, month and day pass the component checks and offset >= 0,
\* an offset that takes the upper bound past 9999-12-31 makes check_valid
\* raise InvalidFuzidateError 'Offset out of range' and no other error, for
\* offsets of any size.
C8_OffsetOutOfRangeOnly ==
    (pc = "live" /\ res.op = "check_valid"
     /\ ComponentsOk(year, month, day) /\ offset >= 0
     /\ ~UpperInRange(year, month, day, offset))
        => /\ res.exc = InvalidFuzidateError
           /\ res.reason = "Offset out of range"

\* C9: for every valid value v, parse(str(v)) succeeds and has the year,
\* month, day and offset of v.
C9_ParseStrRoundTrip ==
    (pc = "live" /\ res.op = "parse_str" /\ SelfValid)
        => /\ res.exc = NoExc
           /\ res.other = <<year, month, day, offset>>

\* C9 witness: a valid month-precision value with an offset, re-parsed from
\* its zero-padded text
C9_Witness ==
    /\ pc = "live" /\ res.op = "parse_str" /\ res.exc = NoExc /\ SelfValid
    /\ res.text = <<"1", "9", "1", "4", "-", "0", "7", "+", "1", "8">>
    /\ res.other = <<1914, 7, 0, 18>>

\* C10: two values, valid or not, are equal exactly when year, month and day
\* are equal; the offset takes no part.
C10_EqualityIgnoresOffset ==
    (pc = "live" /\ res.op = "eq")
        => (res.flag <=> (/\ year = res.other[1]
                          /\ month = res.other[2]
                          /\ day = res.other[3]))

\* C10 witness: an invalid value found equal to a copy with another offset
C10_Witness ==
    /\ pc = "live" /\ res.op = "eq" /\ res.flag
    /\ res.other[4] # offset
    /\ ~SelfValid

\* The encoding has room for month and day: two decimal digits each
TwoDigits(m, d) == m \in 0..99 /\ d \in 0..99

\* Lexicographic order of two (year, month, day) triples
LexLess(a, b) ==
    \/ a[1] < b[1]
    \/ a[1] = b[1] /\ a[2] < b[2]
    \/ a[1] = b[1] /\ a[2] = b[2] /\ a[3] < b[3]

\* Exactly one of three holds
ExactlyOne(p, q, r) ==
    \/ p /\ ~q /\ ~r
    \/ ~p /\ q /\ ~r
    \/ ~p /\ ~q /\ r

\* a < b is the lexicographic order of (year, month, day), and exactly one
\* of a < b, a == b, a > b holds, a > b being b < a
LexicographicAndTotal ==
    (pc = "live" /\ res.op = "lt")
        => LET f == res.other
               b_lt_a == lt(f[1], f[2], f[3], f[4], year, month, day, offset)
               a_eq_b == eq(year, month, day, offset, f[1], f[2], f[3], f[4])
               a_gt_b == gt(year, month, day, offset, f[1], f[2], f[3], f[4])
           IN  /\ res.flag <=> LexLess(<<year, month, day>>, f)
               /\ a_gt_b <=> b_lt_a
               /\ ExactlyOne(res.flag, a_eq_b, a_gt_b)

\* C11 as stated: the order is lexicographic on (year, month, day), total,
\* and for any two values a < b exactly when a.number < b.number.
C11_OrderIsNumberOrder ==
    /\ LexicographicAndTotal
    /\ (pc = "live" /\ res.op = "lt")
           => (res.flag <=> lt_number(year, month, day, offset,
                                      res.other[1], res.other[2],
                                      res.other[3], res.other[4]))

\* C11 amended: the order is lexicographic on (year, month, day) and total
\* for any two values, and a < b exactly when a.number < b.number for values
\* whose month and day both lie in 0..99, as those of every valid value do.
C11_OrderIsNumberOrderInTwoDigits ==
    /\ LexicographicAndTotal
    /\ (/\ pc = "live" /\ res.op = "lt"
        /\ TwoDigits(month, day)
        /\ TwoDigits(res.other[2], res.other[3]))
           => (res.flag <=> lt_number(year, month, day, offset,
                                      res.other[1], res.other[2],
                                      res.other[3], res.other[4]))

\* C11 witness: a value found less than one of a later month although its
\* day is the greater, both within two digits
C11_Witness ==
    /\ pc = "live" /\ res.op = "lt" /\ res.flag
    /\ TwoDigits(month, day) /\ TwoDigits(res.other[2], res.other[3])
    /\ year = res.other[1] /\ month < res.other[2] /\ day > res.other[3]

(* ------------------------------------------------------------------ *)
(* from_int and number on integers of any size                          *)
(* ------------------------------------------------------------------ *)
NextFromInt ==
    \/ FromIntWide
    \/ NumberWide

SpecFromInt == Init /\ [][NextFromInt]_vars

\* C12: from_int splits n into year = floor(n / 10000),
\* month = floor(n / 100) mod 100 and day = n mod 100, and number is its
\* inverse: from_int(n, validate=False).number = n for every integer n.
C12_FromIntInvertsNumber ==
    /\ (pc = "live" /\ res.op = "from_int")
           => /\ year = WideQuot(res.input, 10000)
              /\ month = WideQuot(res.input, 100)[2] % 100
              /\ day = res.input[2] % 100
    /\ (pc = "live" /\ res.op = "number") => res.other = res.input

\* C13: for every calendar date d from 0001-01-01 to 9999-12-31,
\* from_date(d), which skips validation, is a valid value of day precision
\* with offset 0 whose low and high are both d.
C13_FromDateIsExact ==
    /\ (res.op = "from_date")
           => /\ pc = "live" /\ ~validated /\ offset = 0
              /\ <<year, month, day>> \in DateArgs
    /\ (pc = "live" /\ offset = 0 /\ IsCalendarDate(<<year, month, day>>))
           => /\ precision(year, month, day) = PrecisionDay
              /\ res.op \in {"check_valid", "is_valid", "low", "high", "range"}
                     => res.exc = NoExc
              /\ res.op = "is_valid" => res.flag
              /\ res.op \in {"low", "range"} => res.lo = <<year, month, day>>
              /\ res.op \in {"high", "range"} => res.hi = <<year, month, day>>

\* C13 witness: the range of from_date(date.max), both ends the date itself
C13_Witness ==
    /\ pc = "live" /\ res.op = "range" /\ offset = 0
    /\ <<year, month, day>> = DateMax
    /\ res.lo = DateMax /\ res.hi = DateMax

(* ------------------------------------------------------------------ *)
(* using() of the earlier implementation                                *)
(* ------------------------------------------------------------------ *)
NextUsing ==
    \/ ComposeOld
    \/ CheckValidOld
    \/ Using

SpecUsing == Init /\ [][NextUsing]_vars

Unknown == <<0, 0, 0, 0>>

\* C14 as stated: using(Precision.none) yields the canonical unknown value,
\* all fields zero, on every source value it is called on.
C14_UsingNoneIsUnknown ==
    (pc = "live" /\ res.op = "using" /\ res.input = PrecisionNone)
        => (res.exc = NoExc /\ res.other = Unknown)

\* C14 amended: using(Precision.none) yields the canonical unknown value on
\* every valid source value with offset 0, whatever its precision; on a
\* source with a nonzero offset it raises NotImplementedError and on an
\* invalid one the error of check_valid, and yields nothing.
C14_UsingNoneIsUnknownWhenValid ==
    (pc = "live" /\ res.op = "using" /\ res.input = PrecisionNone)
        => /\ (offset = 0 /\ SelfValid)
                  => (res.exc = NoExc /\ res.other = Unknown)
           /\ offset # 0
                  => (res.exc = NotImplementedError /\ res.other = None)
           /\ (offset = 0 /\ ~SelfValid)
                  => (res.exc # NoExc /\ res.other = None)

\* C14 witness: the unknown value made from a value of day precision
C14_Witness ==
    /\ pc = "live" /\ res.op = "using" /\ res.input = PrecisionNone
    /\ precision(year, month, day) = PrecisionDay
    /\ res.exc = NoExc /\ res.other = Unknown

\* The component a value of the wanted precision has where the source has c:
\* c when known, else its default, and zero below the wanted precision
Kept(wanted, level, c, default) ==
    IF wanted < level THEN 0 ELSE IF c # 0 THEN c ELSE default

\* C15: for every valid v with offset 0 and every precision p, v.using(p) is
\* a valid value without offset whose precision is p: year, month and day of
\* v at or above p are kept when known and otherwise 1, and those finer than
\* p are zero; using(p) again changes nothing, and when p is not below v's
\* precision the low of v.using(p) is the low of v.
C15_UsingGivesPrecision ==
    (pc = "live" /\ res.op = "using" /\ offset = 0 /\ SelfValid)
        => LET p == res.input
               r == res.other
           IN  /\ res.exc = NoExc
               /\ r[4] = 0
               /\ StatedValid(r[1], r[2], r[3], r[4])
               /\ check_valid_old(wraps, r[1], r[2], r[3], r[4],
                                  FALSE, None).exc = NoExc
               /\ precision(r[1], r[2], r[3]) = p
               /\ r[1] = Kept(p, PrecisionYear, year, 1)
               /\ r[2] = Kept(p, PrecisionMonth, month, 1)
               /\ r[3] = Kept(p, PrecisionDay, day, 1)
               /\ using(wraps, p, r[1], r[2], r[3], r[4], FALSE, None).fields
                      = r
               /\ p >= precision(year, month, day)
                      => low_date(r[1], r[2], r[3])
                             = low_date(year, month, day)

\* C15 witness: a year taken to day precision, month and day defaulted
C15_Witness ==
    /\ pc = "live" /\ res.op = "using" /\ res.exc = NoExc
    /\ <<year, month, day, offset>> = <<1914, 0, 0, 0>>
    /\ res.input = PrecisionDay /\ res.other = <<1914, 1, 1, 0>>

\* The decimal numeral of n >= 0, and the one zero-padded to two digits
RECURSIVE Decimal(_)
Decimal(n) ==
    LET unit == <<"0", "1", "2", "3", "4", "5", "6", "7", "8", "9">>[(n % 10) + 1]
    IN  IF n < 10 THEN <<unit>> ELSE Decimal(n \div 10) \o <<unit>>

TwoDigit(n) == IF n < 10 THEN <<"0">> \o Decimal(n) ELSE Decimal(n)

\* s ends with t
EndsWith(s, t) ==
    /\ Len(s) >= Len(t)
    /\ SubSeq(s, Len(s) - Len(t) + 1, Len(s)) = t

\* C16: str does not validate and does not fail when the fields are not
\* negative.  All zero renders "0"; a year alone the year unpadded; year and
\* month without day "<year>-<mm>"; year, month and day "<year>-<mm>-<dd>";
\* a nonzero offset appends "+<offset>".  So it is for invalid values too,
\* where a missing year is shown as "0".
C16_StrRendersSetComponents ==
    (/\ pc = "live" /\ res.op = "str"
     /\ year >= 0 /\ month >= 0 /\ day >= 0 /\ offset >= 0)
        => LET t == res.text
               suffix == IF offset # 0 THEN <<"+">> \o Decimal(offset)
                         ELSE <<>>
               dash == <<"-">>
           IN  /\ res.exc = NoExc
               /\ EndsWith(t, suffix)
               /\ offset = 0 => \A i \in 1..Len(t) : t[i] # "+"
               /\ (year = 0 /\ month = 0 /\ day = 0) => t = <<"0">> \o suffix
               /\ (year # 0 /\ month = 0 /\ day = 0)
                      => t = Decimal(year) \o suffix
               /\ (year # 0 /\ month # 0 /\ day = 0)
                      => t = Decimal(year) \o dash \o TwoDigit(month)
                             \o suffix
               /\ (year # 0 /\ month # 0 /\ day # 0)
                      => t = Decimal(year) \o dash \o TwoDigit(month)
                             \o dash \o TwoDigit(day) \o suffix
               /\ (year = 0 /\ (month # 0 \/ day # 0))
                      => (Len(t) >= 2 /\ t[1] = "0" /\ t[2] = "-")

\* C16 witness: an invalid value, its year missing, rendered with its offset
C16_Witness ==
    /\ pc = "live" /\ res.op = "str" /\ ~SelfValid /\ ~validated
    /\ <<year, month, day, offset>> = <<0, 7, 1, 2>>
    /\ res.text = <<"0", "-", "0", "7", "-", "0", "1", "+", "2">>

\* The checks of check_valid as the claim numbers them: whether the value
\* violates check k
Violates(k, y, m, d, o) ==
    CASE k = 1  -> y = 0 /\ m = 0 /\ d = 0 /\ o # 0
      [] k = 2  -> d # 0 /\ (y = 0 \/ m = 0)
      [] k = 3  -> m < 0
      [] k = 4  -> m # 0 /\ y = 0
      [] k = 5  -> y < 0
      [] k = 6  -> m \in 1..12 /\ d > MonthLength(y, m)
      [] k = 7  -> m > 12
      [] k = 8  -> ~(1 <= y /\ y <= 9999)
      [] k = 9  -> d < 0
      [] k = 10 -> o < 0
      [] k = 11 -> ~UpperInRange(y, m, d, o)

\* The reason check k reports, and the number it reports with it
ReasonOf(k, y, m, d) ==
    CASE k = 1  -> <<"Unknown fuzidate may not have offset", 0>>
      [] k = 2  -> <<"Day must not be set", 0>>
      [] k = 3  -> <<"Month must not be negative", 0>>
      [] k = 4  -> <<"Month must not be set", 0>>
      [] k = 5  -> <<"Year must not be negative", 0>>
      [] k = 6  -> <<"Invalid day", d>>
      [] k = 7  -> <<"Invalid month", m>>
      [] k = 8  -> <<"Invalid year", y>>
      [] k = 9  -> <<"Day must not be negative", 0>>
      [] k = 10 -> <<"Offset must not be negative", 0>>
      [] k = 11 -> <<"Offset out of range", 0>>

\* The value violates a check; the all-zero value without offset is valid
Invalid(y, m, d, o) ==
    /\ ~AllZero(y, m, d, o)
    /\ \E k \in 1..11 : Violates(k, y, m, d, o)

FirstViolated(y, m, d, o) ==
    CHOOSE k \in 1..11 :
        /\ Violates(k, y, m, d, o)
        /\ \A j \in 1..(k - 1) : ~Violates(j, y, m, d, o)

\* check_valid has just run on the fields of the state: called, or run by a
\* validating constructor
JustChecked ==
    \/ pc = "live" /\ res.op = "check_valid"
    \/ /\ res.op \in Constructors /\ res.flag
       /\ ~(res.op = "parse" /\ res.reason = "Fuzidate parse error")

\* C17: check_valid applies its checks in the order (1) all zero with an
\* offset, (2) day set below day precision, (3) negative month, then month
\* set below month precision, (4) negative year, (5) day beyond the month's
\* length, (6) month > 12, (7) year outside 1..9999, (8) negative day,
\* (9) negative offset, (10) offset out of range; on every invalid value it
\* reports the reason of the first of these the value violates.  (Violates
\* numbers the two checks of (3) as 3 and 4, and the later ones one higher.)
C17_FirstViolatedCheckReported ==
    (JustChecked /\ Invalid(year, month, day, offset))
        => /\ res.exc = InvalidFuzidateError
           /\ <<res.reason, res.arg>>
                  = ReasonOf(FirstViolated(year, month, day, offset),
                             year, month, day)

\* What a call gave: how it ended, and its value
Outcome(r) == <<r.exc, r.reason, r.arg, r.lo, r.hi, r.flag>>

Raised(c) == <<c.exc, c.reason, c.arg, None, None, FALSE>>

Gave(lo, hi, flag) == <<NoExc, "", 0, lo, hi, flag>>

\* The operations that read or fill the cells __validated, __high and __low
CachedOps == {"check_valid", "is_valid", "high", "low", "range", "bool"}

\* What op gives when its check_valid ends as cv, its low as lg, and the
\* check_valid of the high that follows low in range as cv2
Gives(op, cv, lg, cv2) ==
    CASE op = "check_valid" -> Raised(cv)
      [] op = "is_valid" ->
            IF cv.exc \in {NoExc, InvalidFuzidateError}
            THEN Gave(None, None, cv.exc = NoExc)
            ELSE Raised(cv)
      [] op = "high" ->
            IF cv.exc = NoExc THEN Gave(None, cv.high, FALSE) ELSE Raised(cv)
      [] op = "low" ->
            IF lg.exc = NoExc THEN Gave(lg.low, None, FALSE) ELSE Raised(lg)
      [] op = "range" ->
            IF lg.exc # NoExc THEN Raised(lg)
            ELSE IF cv2.exc # NoExc THEN Raised(cv2)
            ELSE Gave(lg.low, cv2.high, FALSE)
      [] op = "bool" ->
            IF cv.exc = NoExc
            THEN Gave(None, None, truth(year, month, day, offset))
            ELSE Raised(cv)

\* Whatever calls came before, the cells hold what the first call computed
\* and a call gives what it gives as the first call on the instance
SameAsFirstCall ==
    pc = "live"
        => \E cv \in {check_valid(wraps, year, month, day, offset,
                                  FALSE, None)} :
           \E lg \in {low_get(cv, year, month, day, FALSE, None, None)} :
           \E cv2 \in {check_valid(wraps, year, month, day, offset,
                                   lg.validated, lg.high)} :
               /\ validated => (cv.exc = NoExc /\ high = cv.high)
               /\ ~validated => high = None
               /\ low # None => (validated /\ low = lg.low)
               /\ res.op \in CachedOps
                      => Outcome(res) = Gives(res.op, cv, lg, cv2)

\* Two calls of an operation that reads the fields only, with the same
\* operand
SameFieldCall(r, s) ==
    /\ r.op \in {"str", "parse_str", "eq", "lt"}
    /\ r.op = s.op
    /\ r.op \in {"eq", "lt"} => r.other = s.other

\* One step of an instance: the fields stay, the cells once filled stay, a
\* failed check_valid fills none, and a call repeated gives the same
StepKeepsCells ==
    pc = "live"
        => /\ pc' = "live"
           /\ fields' = fields
           /\ validated => (validated' /\ high' = high)
           /\ low # None => low' = low
           /\ (res'.op = "check_valid" /\ res'.exc # NoExc)
                  => (~validated' /\ high' = None)
           /\ SameFieldCall(res, res') => res' = res

\* C18: in any sequence of operations on one instance the fields never
\* change and every operation gives the same outcome each time, value or
\* failure: once validated, the flag and high stay as they are, low once set
\* stays as it is, and a failed check_valid leaves the instance unvalidated
\* with high unset.
C18_OutcomesNeverChange == []SameAsFirstCall /\ [][StepKeepsCells]_vars

\* C18 witness: check_valid called again on an instance whose three cells
\* are filled
C18_Witness ==
    /\ pc = "live" /\ res.op = "check_valid" /\ res.exc = NoExc
    /\ validated /\ high # None /\ low # None
    /\ offset # 0

\* The date a is not after the date b
NotAfter(a, b) == DayNumber(a[1], a[2], a[3]) <= DayNumber(b[1], b[2], b[3])

\* Offsets below o: all of them up to AllBelow, and beyond that the least,
\* the middle and the greatest
AllBelow == 41
SmallerOffsets(o) ==
    IF o <= AllBelow THEN 0 .. (o - 1) ELSE {0, 1, o \div 2, o - 1}

\* The upper bound of the value with the offset k in place of its own
HighWithOffset(k) == check_valid(wraps, year, month, day, k, FALSE, None)

\* C20: for every valid value low <= high and both lie within
\* 0001-01-01 .. 9999-12-31, and its high is not earlier than the high of
\* the same date with a smaller offset; range gives such a pair
C20_BoundsOrderedAndMonotone ==
    pc = "live" =>
        \E cv \in {HighWithOffset(offset)}, lo \in {low_date(year, month, day)} :
            (SelfValid \/ cv.exc = NoExc) =>
                /\ cv.exc = NoExc /\ lo.exc = NoExc
                /\ IsCalendarDate(lo.date) /\ IsCalendarDate(cv.high)
                /\ NotAfter(DateMin, lo.date) /\ NotAfter(cv.high, DateMax)
                /\ NotAfter(lo.date, cv.high)
                /\ \A k \in SmallerOffsets(offset) :
                    \E cs \in {HighWithOffset(k)} :
                        /\ cs.exc = NoExc
                        /\ NotAfter(cs.high, cv.high)
                /\ (res.op = "range" /\ res.exc = NoExc) =>
                    /\ NotAfter(res.lo, res.hi)
                    /\ NotAfter(DateMin, res.lo) /\ NotAfter(res.hi, DateMax)

\* C20 witness: range of 1914 with offset 5 gave 1914-01-01 .. 1919-12-31,
\* and the same year with offset 4 ends a year earlier
C20_Witness ==
    /\ pc = "live" /\ res.op = "range" /\ res.exc = NoExc
    /\ year = 1914 /\ month = 0 /\ day = 0 /\ offset = 5
    /\ res.lo = <<1914, 1, 1>> /\ res.hi = <<1919, 12, 31>>
    /\ HighWithOffset(4).high = <<1918, 12, 31>>

(* ------------------------------------------------------------------ *)
(* Threads calling into one instance                                   *)
(* ------------------------------------------------------------------ *)
\* Calls a thread makes on the shared instance
ThreadOps == {"check_valid", "is_valid", "high", "low", "range"}

\* Statement order at the end of check_valid with the assignments swapped
cell_written_FlagFirst(pos) ==
    IF pos = "cv_w1" THEN "validated" ELSE "high"

\* Which cell the two closing assignments of check_valid write: the high
\* cache first, the validated flag after it
cell_written(pos) ==
    IF pos = "cv_w1" THEN "high" ELSE "validated"

\* The thread's call ends giving out
Finish(t, out) ==
    threads' = [threads EXCEPT ![t] = [Idle EXCEPT !.out = out]]

\* The thread moves on to position p
Goto(t, p) ==
    threads' = [threads EXCEPT ![t].pc = p]

\* An exception leaves the thread's call; is_valid turns the one of its
\* except clause into False
Raises(t, exc) ==
    IF threads[t].op = "is_valid" /\ exc = InvalidFuzidateError
    THEN Finish(t, OutOf("is_valid", NoExc, None, None, FALSE))
    ELSE Finish(t, OutOf(threads[t].op, exc, None, None, FALSE))

\* check_valid has returned to the thread's caller
Returned(t) ==
    LET th == threads[t]
    IN  IF th.op = "check_valid"
        THEN Finish(t, OutOf("check_valid", NoExc, None, None, FALSE))
        ELSE IF th.op = "is_valid"
        THEN Finish(t, OutOf("is_valid", NoExc, None, None, TRUE))
        ELSE IF th.part = "low"
        THEN Goto(t, "low_write")
        ELSE Goto(t, "high_ret")

\* The shared instance is constructed, validated at once or not
ThreadCompose ==
    /\ pc = "start"
    /\ \E f \in ThreadArgs, validate \in BOOLEAN :
        Construct("compose", f, validate)

\* A thread starts a call
Call(t) ==
    /\ pc = "live"
    /\ threads[t].pc = "idle"
    /\ \E op \in ThreadOps :
        threads' = [threads EXCEPT ![t] =
            [pc   |-> IF op \in {"low", "range"} THEN "low_read" ELSE "cv_read",
             op   |-> op,
             part |-> IF op \in {"low", "range"} THEN "low"
                      ELSE IF op = "high" THEN "high" ELSE "none",
             h    |-> None,
             lo   |-> None,
             out  |-> Idle.out]]
    /\ UNCHANGED <<pc, wraps, year, month, day, offset, validated, high, low,
                   res>>

\* low tests its cache
LowRead(t) ==
    /\ pc = "live"
    /\ threads[t].pc = "low_read"
    /\ IF low # None THEN Goto(t, "low_ret") ELSE Goto(t, "cv_read")
    /\ UNCHANGED <<pc, wraps, year, month, day, offset, validated, high, low,
                   res>>

\* check_valid tests the validated flag and, when it is not set, runs its
\* checks and computes the upper bound into a local
CvRead(t) ==
    /\ pc = "live"
    /\ threads[t].pc = "cv_read"
    /\ \E cv \in {check_valid(wraps, year, month, day, offset, validated,
                              high)} :
        IF validated
        THEN Returned(t)
        ELSE IF cv.exc # NoExc
        THEN Raises(t, cv.exc)
        ELSE threads' = [threads EXCEPT ![t].pc = "cv_w1", ![t].h = cv.high]
    /\ UNCHANGED <<pc, wraps, year, month, day, offset, validated, high, low,
                   res>>

\* check_valid stores the upper bound, then sets the flag
CvWrite(t) ==
    /\ pc = "live"
    /\ threads[t].pc \in {"cv_w1", "cv_w2"}
    /\ IF cell_written(threads[t].pc) = "high"
       THEN high' = threads[t].h /\ UNCHANGED validated
       ELSE validated' = TRUE /\ UNCHANGED high
    /\ IF threads[t].pc = "cv_w1" THEN Goto(t, "cv_w2") ELSE Returned(t)
    /\ UNCHANGED <<pc, wraps, year, month, day, offset, low, res>>

\* low stores the lower bound
LowWrite(t) ==
    /\ pc = "live"
    /\ threads[t].pc = "low_write"
    /\ \E ld \in {low_date(year, month, day)} :
        IF ld.exc # NoExc
        THEN Raises(t, ld.exc) /\ UNCHANGED low
        ELSE low' = ld.date /\ Goto(t, "low_ret")
    /\ UNCHANGED <<pc, wraps, year, month, day, offset, validated, high, res>>

\* low returns its cache; range goes on to high
LowRet(t) ==
    /\ pc = "live"
    /\ threads[t].pc = "low_ret"
    /\ IF threads[t].op = "low"
       THEN Finish(t, OutOf("low", NoExc, low, None, FALSE))
       ELSE threads' = [threads EXCEPT ![t].pc = "cv_read",
                                       ![t].part = "high", ![t].lo = low]
    /\ UNCHANGED <<pc, wraps, year, month, day, offset, validated, high, low,
                   res>>

\* high returns its cache
HighRet(t) ==
    /\ pc = "live"
    /\ threads[t].pc = "high_ret"
    /\ Finish(t, OutOf(threads[t].op, NoExc, threads[t].lo, high, FALSE))
    /\ UNCHANGED <<pc, wraps, year, month, day, offset, validated, high, low,
                   res>>

NextThreads ==
    \/ ThreadCompose
    \/ \E t \in Threads : Call(t)
    \/ \E t \in Threads : LowRead(t)
    \/ \E t \in Threads : CvRead(t)
    \/ \E t \in Threads : CvWrite(t)
    \/ \E t \in Threads : LowWrite(t)
    \/ \E t \in Threads : LowRet(t)
    \/ \E t \in Threads : HighRet(t)

SpecThreads == Init /\ [][NextThreads]_vars

\* What one thread alone gets from the instance: its upper and lower bound
AloneHigh == check_valid(wraps, year, month, day, offset, FALSE, None).high
AloneLow == low_date(year, month, day).date

\* A finished call gave the bounds that one thread alone gets
GaveAlone(out, hi, lo) ==
    /\ out.exc = NoExc
    /\ out.op \in {"high", "range"} => out.hi # None /\ out.hi = hi
    /\ out.op \in {"low", "range"} => out.lo # None /\ out.lo = lo
    /\ out.op = "is_valid" => out.flag

\* C19: under any interleaving of threads calling check_valid, is_valid,
\* high, low and range on one valid instance, every finished call gives the
\* bounds a single thread gets and high never gives None: once the validated
\* flag is set the high cache holds the bound, and whatever racing threads
\* store in the caches is that same bound
C19_ThreadsSeeTheSameBounds ==
    (pc = "live" /\ SelfValid) =>
        \E hi \in {AloneHigh}, lo \in {AloneLow} :
            /\ hi # None
            /\ validated => high = hi
            /\ high \in {None, hi}
            /\ low \in {None, lo}
            /\ \A t \in Threads :
                threads[t].out.op # "none" => GaveAlone(threads[t].out, hi, lo)

\* Thread 1 has its upper bound from high and the flag is set, while thread 2,
\* which found the flag unset, is about to store its own computation over it
C19_Witness ==
    /\ pc = "live" /\ SelfValid
    /\ validated
    /\ threads[1].out.op = "high" /\ threads[1].out.hi = AloneHigh
    /\ threads[2].pc = "cv_w1" /\ threads[2].h = high

====
